---- MODULE Spec2Model ----
(***************************************************************************)
(* Points Policy Engine of the attendance-points tracker (ATP_Beta7.py):   *)
(* calendar math, policy dates, the points_history ledger, the cached      *)
(* employee aggregate, the undo history and the auto-expiration run.       *)
(*                                                                         *)
(* Dates are the integers yyyymmdd: they order exactly as the ISO strings  *)
(* 'YYYY-MM-DD' the program stores and compares.  NULL / None is NoDate.   *)
(* Point values are counted in half points (0.5 -> 1, 1.0 -> 2, 1.5 -> 3): *)
(* every value the program adds or subtracts is a multiple of 0.5, which   *)
(* floats represent exactly, so round(x, 2) is the identity on them.       *)
(***************************************************************************)
EXTENDS Integers, Sequences, FiniteSets, TLC

\* ---------------------------------------------------------------- bounds
\* MaxId: the last points_history id Spec hands out; MaxTicks: how often the
\* clock moves on; MaxInputId: the last id SpecInputs hands out
MaxId == 3
MaxTicks == 2
MaxInputId == 1
MaxUndoId == 21
MaxMonths == 14
MaxTotal == 20
MaxCrashId == 2
MaxRunId == 4
MaxSteps == 6
MaxLegacyId == 4

\* ------------------------------------------------------ program constants
MAX_UNDO_HISTORY == 20

mkdate(y, m, d) == y * 10000 + m * 100 + d

\* date.min, the "never" sentinel of the auto-expiration run
DATE_MIN == mkdate(1, 1, 1)

\* None / SQL NULL in a date column
NoDate == 0

\* the day the clock shows when the application starts
Epoch == mkdate(2025, 1, 1)
year(x) == x \div 10000
month(x) == (x \div 100) % 100
day(x) == x % 100

\* ---------------------------------------------------------- calendar math
\* add_months with a leap year every fourth year
add_months_julian(orig, months) ==
    LET y == year(orig) + ((month(orig) - 1 + months) \div 12)
        m == ((month(orig) - 1 + months) % 12) + 1
        dim == IF m \in {1, 3, 5, 7, 8, 10, 12} THEN 31
               ELSE IF m \in {4, 6, 9, 11} THEN 30
               ELSE IF y % 4 = 0 THEN 29
               ELSE 28
        d == IF day(orig) < dim THEN day(orig) ELSE dim
    IN  mkdate(y, m, d)

add_months(orig, months) ==
    LET y == year(orig) + ((month(orig) - 1 + months) \div 12)
        m == ((month(orig) - 1 + months) % 12) + 1
        dim == IF m \in {1, 3, 5, 7, 8, 10, 12} THEN 31
               ELSE IF m \in {4, 6, 9, 11} THEN 30
               ELSE IF (y % 4 = 0 /\ (y % 100 # 0 \/ y % 400 = 0)) THEN 29
               ELSE 28
        d == IF day(orig) < dim THEN day(orig) ELSE dim
    IN  mkdate(y, m, d)

first_of_month(d) == mkdate(year(d), month(d), 1)

first_of_next_month(d) == add_months(first_of_month(d), 1)

two_months_then_first(d) == first_of_next_month(add_months(d, 2))

three_months_then_first(d) == first_of_next_month(add_months(d, 3))

\* step_next_due without the jump past the perfect-attendance month
step_next_due_plain(current_due, perfect_date) ==
    two_months_then_first(current_due)

\* the step that snaps back to the first of the month of the due date
step_next_due_snapping_back(current_due, perfect_date) ==
    IF current_due < perfect_date
    THEN two_months_then_first(perfect_date)
    ELSE first_of_month(current_due)

\* the step that lands on the perfect-attendance date instead of past it
step_next_due_to_anchor(current_due, perfect_date) ==
    IF current_due < perfect_date
    THEN perfect_date
    ELSE two_months_then_first(current_due)

step_next_due(current_due, perfect_date) ==
    IF current_due < perfect_date
    THEN two_months_then_first(perfect_date)
    ELSE two_months_then_first(current_due)

\* the policy dates without the snap to the first of the next month
calc_rolloff_and_perfect_unsnapped(last_point) ==
    <<add_months(last_point, 2), add_months(last_point, 3)>>

\* <<rolloff, perfect>>
calc_rolloff_and_perfect(last_point) ==
    LET roll_mark == add_months(last_point, 2)
        perf_mark == add_months(last_point, 3)
    IN  <<first_of_next_month(roll_mark), first_of_next_month(perf_mark)>>

\* ------------------------------------------------------------ input forms
\* The text of a date entry: three numeric fields f1 sep f2 sep f3, or the
\* empty string (sep = "").  "01-05-2025" is [sep |-> "-", f1 |-> 1,
\* f2 |-> 5, f3 |-> 2025]; the ISO text "2025-01-05" is f1 = 2025, f3 = 5.
DateText(sep, f1, f2, f3) == [sep |-> sep, f1 |-> f1, f2 |-> f2, f3 |-> f3]
EmptyText == DateText("", 0, 0, 0)

\* datetime.strptime(...).date(): the proleptic Gregorian calendar
strptime_days_in_month(y, m) ==
    IF m \in {1, 3, 5, 7, 8, 10, 12} THEN 31
    ELSE IF m \in {4, 6, 9, 11} THEN 30
    ELSE IF (y % 4 = 0 /\ (y % 100 # 0 \/ y % 400 = 0)) THEN 29
    ELSE 28

\* parse_us_to_iso with a default date in place of None
parse_us_to_iso_defaulting(s) ==
    IF /\ s.sep \in {"-", "/"}
       /\ s.f1 \in 1..12
       /\ s.f3 \in 1..9999
       /\ s.f2 \in 1..strptime_days_in_month(s.f3, s.f1)
    THEN mkdate(s.f3, s.f1, s.f2)
    ELSE Epoch

parse_us_to_iso(s) ==
    IF s.sep = "" THEN NoDate
    ELSE IF /\ s.sep \in {"-", "/"}
            /\ s.f1 \in 1..12
            /\ s.f3 \in 1..9999
            /\ s.f2 \in 1..strptime_days_in_month(s.f3, s.f1)
         THEN mkdate(s.f3, s.f1, s.f2)
         ELSE NoDate

\* float(self.point_var.get()) in half points; NotANumber when float() raises
NotANumber == 999

float_of(txt) ==
    CASE txt = "0.5" -> 1
      [] txt = "1.0" -> 2
      [] txt = "1"   -> 2
      [] txt = "1.5" -> 3
      [] txt = "2.0" -> 4
      [] txt = "0"   -> 0
      [] txt = "-1.0" -> -2
      [] OTHER -> NotANumber

\* the (date text, point text) entries _add_point is given in Spec
MainEntries ==
    { <<DateText("-", 11, 30, 2024), "0.5">>, <<DateText("/", 1, 20, 2025), "1.5">> }

\* the texts _add_point is given in SpecInputs
DateInputs ==
    { DateText("-", 1, 5, 2025), DateText("/", 1, 20, 2025),
      DateText("-", 2, 29, 2024),
      DateText("-", 2, 29, 2025), DateText("-", 13, 1, 2025),
      DateText("-", 4, 31, 2025),
      DateText(".", 1, 5, 2025), DateText("-", 2025, 1, 5), EmptyText }

PointInputs == {"0.5", "1.0", "1.5", "1", "2.0", "0", "abc", ""}

\* the texts of the optional perfect-attendance entry of the add-employee form
PerfectInputs == { EmptyText, DateText("-", 5, 1, 2025), DateText("-", 4, 31, 2025) }

\* the employee ids the forms are given; NoSelection: the combobox resolves to
\* no id, or the id entry is not a positive number
EmpIds == {100}
NoSelection == 0

\* the days on which the application is used: every fourth month from Epoch
Days == { add_months(Epoch, 4 * k) : k \in 0..MaxTicks }

\* ------------------------------------------------------------------ state
VARIABLES
    employees,       \* employees table: employee_id -> row
    points_history,  \* points_history table: set of rows
    next_id,         \* AUTOINCREMENT sequence of points_history.id
    undo_history,    \* AddPointsFrame.undo_history.history (deque)
    today,           \* the calendar day of the system clock
    log_rows,        \* audit rows of the last auto-expiration run
    lastOp,          \* the handler that ran last, with its inputs
    calc,            \* the last call of a calendar or status function: arguments and result
    handler          \* the handler that is between two of its statements, with its
                     \* uncommitted view of the tables (followed in SpecCrash and SpecRun)

vars == <<employees, points_history, next_id, undo_history, today, log_rows, lastOp, calc, handler>>

\* lastOp: which handler ran, the employee it named, the texts of its date and
\* point entries, whether it ran to its commit,
\* and nth, the number of auto-expiration runs in a row (counted up to 2)
Op(kind, emp, din, pin, ok) ==
    [kind |-> kind, emp |-> emp, din |-> din, pin |-> pin, ok |-> ok, nth |-> 1]

\* no handler is running: the event loop waits
Idle == [op |-> "idle"]

\* a call fn(a, b) and what it returned
Call(fn, a, b, result) == [fn |-> fn, a |-> a, b |-> b, result |-> result]

EmployeeRow(total, last, roll, perfect, warn) ==
    [point_total |-> total, last_point_date |-> last, rolloff_date |-> roll,
     perfect_attendance |-> perfect, point_warning_date |-> warn]

HistoryRow(id, emp, d, pts, flag) ==
    [id |-> id, employee_id |-> emp, point_date |-> d, points |-> pts, flag_code |-> flag]

Init ==
    /\ employees = << >>
    /\ points_history = {}
    /\ next_id = 1
    /\ undo_history = << >>
    /\ today = Epoch
    /\ log_rows = {}
    /\ lastOp = Op("init", NoSelection, EmptyText, "", TRUE)
    /\ calc = Call("none", NoDate, NoDate, NoDate)
    /\ handler = Idle

\* ------------------------------------------------------------ the clock
Tick ==
    /\ add_months(today, 4) \in Days
    /\ today' = add_months(today, 4)
    /\ lastOp' = Op("tick", NoSelection, EmptyText, "", TRUE)
    /\ UNCHANGED <<employees, points_history, next_id, undo_history, log_rows, calc, handler>>

\* ------------------------------------------------------------ SQL helpers
RECURSIVE sum_points(_)
sum_points(rows) ==
    IF rows = {} THEN 0
    ELSE LET r == CHOOSE x \in rows : TRUE
         IN  r.points + sum_points(rows \ {r})

rows_of(hist, emp_id) == { r \in hist : r.employee_id = emp_id }

\* SELECT SUM(points) ... WHERE employee_id=?  with the NULL -> 0.0 of the caller
sql_sum_points(hist, emp_id) == sum_points(rows_of(hist, emp_id))

\* SELECT MAX(point_date) ... WHERE employee_id=?  (NULL when there is no row)
sql_max_point_date(hist, emp_id) ==
    IF rows_of(hist, emp_id) = {} THEN NoDate
    ELSE CHOOSE d \in { r.point_date : r \in rows_of(hist, emp_id) } :
            \A r \in rows_of(hist, emp_id) : r.point_date <= d

\* UPDATE employees SET ... WHERE employee_id=?  (no row: nothing is updated)
update_row(emps, emp_id, row) ==
    IF emp_id \in DOMAIN emps THEN [emps EXCEPT ![emp_id] = row] ELSE emps

\* ------------------------------------------------------------ employees tab
\* the creation with the roll-off date counted from the day of creation
add_employee_seeding_dates(Ids) ==
    \E id_in \in Ids \cup {NoSelection}, names_ok \in BOOLEAN,
       perfect_in \in PerfectInputs :
        LET perfect_iso == parse_us_to_iso(perfect_in)
            accepted ==
                /\ names_ok
                /\ id_in > 0
                /\ (perfect_in = EmptyText \/ perfect_iso # NoDate)
                /\ id_in \notin DOMAIN employees
        IN  /\ employees' =
                IF accepted
                THEN [e \in DOMAIN employees \cup {id_in} |->
                        IF e = id_in
                        THEN EmployeeRow(0, NoDate, first_of_next_month(add_months(today, 2)),
                                         perfect_iso, NoDate)
                        ELSE employees[e]]
                ELSE employees
            /\ lastOp' = Op("add_employee", id_in, perfect_in, "", accepted)
            /\ UNCHANGED <<points_history, next_id, undo_history, today, log_rows, calc, handler>>

add_employee_from(Ids) ==
    \E id_in \in Ids \cup {NoSelection}, names_ok \in BOOLEAN,
       perfect_in \in PerfectInputs :
        LET perfect_iso == parse_us_to_iso(perfect_in)
            accepted ==
                /\ names_ok
                /\ id_in > 0
                /\ (perfect_in = EmptyText \/ perfect_iso # NoDate)
                /\ id_in \notin DOMAIN employees
        IN  /\ employees' =
                IF accepted
                THEN [e \in DOMAIN employees \cup {id_in} |->
                        IF e = id_in
                        THEN EmployeeRow(0, NoDate, NoDate, perfect_iso, NoDate)
                        ELSE employees[e]]
                ELSE employees
            /\ lastOp' = Op("add_employee", id_in, perfect_in, "", accepted)
            /\ UNCHANGED <<points_history, next_id, undo_history, today, log_rows, calc, handler>>

delete_selected_employees ==
    \E sel \in (SUBSET DOMAIN employees) \ {{}} :
        /\ points_history' = { r \in points_history : r.employee_id \notin sel }
        /\ employees' = [e \in DOMAIN employees \ sel |-> employees[e]]
        /\ lastOp' = Op("delete_employee", NoSelection, EmptyText, "", TRUE)
        /\ UNCHANGED <<next_id, undo_history, today, log_rows, calc, handler>>

\* ----------------------------------------------------------- undo history
\* a deque without maxlen
undo_push_unbounded(history, entry) == Append(history, entry)

\* deque(maxlen=max_size).append
undo_push(history, entry) ==
    IF Len(history) >= MAX_UNDO_HISTORY
    THEN Append(Tail(history), entry)
    ELSE Append(history, entry)

UndoEntry(point_id, emp_id, pts, old_total, old_last_date) ==
    [point_id |-> point_id, emp_id |-> emp_id, points |-> pts,
     old_total |-> old_total, old_last_date |-> old_last_date]

\* ----------------------------------------------------------- add points tab
\* the UPDATE of _add_point without its two policy dates
add_point_update_no_dates(row, pts, iso_date) ==
    [row EXCEPT !.point_total = row.point_total + pts,
                !.last_point_date = iso_date]

\* The employee row after the UPDATE of _add_point
add_point_update(row, pts, iso_date) ==
    LET dates == calc_rolloff_and_perfect(iso_date)
    IN  [row EXCEPT !.point_total = row.point_total + pts,
                    !.last_point_date = iso_date,
                    !.rolloff_date = dates[1],
                    !.perfect_attendance = dates[2]]

\* sel: the employee id the combobox text resolves to, if any.  An id that
\* is not in employees makes the INSERT fail on the foreign key.
add_point_from(Sels, Entries, Reasons, IdCap) ==
    \E sel \in Sels, entry \in Entries, has_reason \in Reasons :
        LET din == entry[1]
            pin == entry[2]
            iso_date == parse_us_to_iso(din)
            pts == float_of(pin)
            passes ==
                /\ sel # NoSelection
                /\ iso_date # NoDate
                /\ pts # NotANumber /\ pts \in {1, 2, 3}
                /\ has_reason
                /\ sel \in DOMAIN employees
        IN  /\ passes => next_id <= IdCap
            /\ IF passes
               THEN /\ points_history' = points_history \cup
                           { HistoryRow(next_id, sel, iso_date, pts, "") }
                    /\ next_id' = next_id + 1
                    /\ employees' = update_row(employees, sel,
                           add_point_update(employees[sel], pts, iso_date))
                    /\ undo_history' = undo_push(undo_history,
                           UndoEntry(next_id, sel, pts, employees[sel].point_total,
                                     employees[sel].last_point_date))
               ELSE UNCHANGED <<points_history, next_id, employees, undo_history>>
            /\ lastOp' = Op("add_point", sel, din, pin, passes)
            /\ UNCHANGED <<today, log_rows, calc, handler>>

\* The employee row after the recomputation of _undo_point
undo_point_update(row, hist, emp_id) ==
    LET new_total == sql_sum_points(hist, emp_id)
        last_date_iso == sql_max_point_date(hist, emp_id)
    IN  IF last_date_iso = NoDate
        THEN [row EXCEPT !.point_total = new_total,
                         !.last_point_date = NoDate,
                         !.rolloff_date = NoDate,
                         !.perfect_attendance = NoDate]
        ELSE [row EXCEPT !.point_total = new_total,
                         !.last_point_date = last_date_iso,
                         !.rolloff_date = calc_rolloff_and_perfect(last_date_iso)[1],
                         !.perfect_attendance = calc_rolloff_and_perfect(last_date_iso)[2]]

\* an undo that falls back to the newest ledger event when the log is empty
undo_point_newest_event ==
    LET ids == { r.id : r \in points_history }
        newest == IF ids = {} THEN 0 ELSE CHOOSE i \in ids : \A j \in ids : j <= i
        hist == { r \in points_history : r.id # newest }
    IN  /\ undo_history' = IF undo_history = << >> THEN undo_history
                           ELSE SubSeq(undo_history, 1, Len(undo_history) - 1)
        /\ points_history' = hist
        /\ employees' = [e \in DOMAIN employees |->
                            undo_point_update(employees[e], hist, e)]
        /\ lastOp' = Op("undo_point", NoSelection, EmptyText, "", undo_history # << >>)
        /\ UNCHANGED <<next_id, today, log_rows, calc, handler>>

\* the undo that removes the newest event of the entry's employee
undo_point_newest_of_employee ==
    IF undo_history = << >>
    THEN /\ lastOp' = Op("undo_point", NoSelection, EmptyText, "", FALSE)
         /\ UNCHANGED <<employees, points_history, next_id, undo_history, today, log_rows, calc, handler>>
    ELSE LET action == undo_history[Len(undo_history)]
             hist == { r \in points_history :
                        \/ r.employee_id # action.emp_id
                        \/ \E q \in points_history :
                              q.employee_id = action.emp_id /\ q.id > r.id }
         IN  /\ undo_history' = SubSeq(undo_history, 1, Len(undo_history) - 1)
             /\ points_history' = hist
             /\ employees' =
                    IF action.emp_id \in DOMAIN employees
                    THEN update_row(employees, action.emp_id,
                            undo_point_update(employees[action.emp_id], hist, action.emp_id))
                    ELSE employees
             /\ lastOp' = Op("undo_point", action.emp_id, EmptyText, "", TRUE)
             /\ UNCHANGED <<next_id, today, log_rows, calc, handler>>

undo_point ==
    IF undo_history = << >>
    THEN /\ lastOp' = Op("undo_point", NoSelection, EmptyText, "", FALSE)
         /\ UNCHANGED <<employees, points_history, next_id, undo_history, today, log_rows, calc, handler>>
    ELSE LET action == undo_history[Len(undo_history)]
             hist == { r \in points_history : r.id # action.point_id }
         IN  /\ undo_history' = SubSeq(undo_history, 1, Len(undo_history) - 1)
             /\ points_history' = hist
             /\ employees' =
                    IF action.emp_id \in DOMAIN employees
                    THEN update_row(employees, action.emp_id,
                            undo_point_update(employees[action.emp_id], hist, action.emp_id))
                    ELSE employees
             /\ lastOp' = Op("undo_point", action.emp_id, EmptyText, "", TRUE)
             /\ UNCHANGED <<next_id, today, log_rows, calc, handler>>

\* ---------------------------------------------------------- manage points
\* a recomputation that adds the ledger sum onto the stored total
recompute_patching_total(row, hist, emp_id) ==
    LET new_total == row.point_total + sql_sum_points(hist, emp_id)
        last_date_iso == sql_max_point_date(hist, emp_id)
    IN  IF last_date_iso = NoDate
        THEN [row EXCEPT !.point_total = new_total,
                         !.last_point_date = NoDate,
                         !.rolloff_date = NoDate,
                         !.perfect_attendance = NoDate]
        ELSE [row EXCEPT !.point_total = new_total,
                         !.last_point_date = last_date_iso,
                         !.rolloff_date = calc_rolloff_and_perfect(last_date_iso)[1],
                         !.perfect_attendance = calc_rolloff_and_perfect(last_date_iso)[2]]

recompute_employee_after_change(row, hist, emp_id) ==
    LET new_total == sql_sum_points(hist, emp_id)
        last_date_iso == sql_max_point_date(hist, emp_id)
    IN  IF last_date_iso = NoDate
        THEN [row EXCEPT !.point_total = new_total,
                         !.last_point_date = NoDate,
                         !.rolloff_date = NoDate,
                         !.perfect_attendance = NoDate]
        ELSE [row EXCEPT !.point_total = new_total,
                         !.last_point_date = last_date_iso,
                         !.rolloff_date = calc_rolloff_and_perfect(last_date_iso)[1],
                         !.perfect_attendance = calc_rolloff_and_perfect(last_date_iso)[2]]

\* The window lists the points of one existing employee; one listed row is
\* selected and deleted.
delete_selected ==
    \E r \in points_history :
        LET emp_id == r.employee_id
            hist == points_history \ {r}
        IN  /\ emp_id \in DOMAIN employees
            /\ points_history' = hist
            /\ employees' = update_row(employees, emp_id,
                    recompute_employee_after_change(employees[emp_id], hist, emp_id))
            /\ lastOp' = Op("delete_point", emp_id, EmptyText, "", TRUE)
            /\ UNCHANGED <<next_id, undo_history, today, log_rows, calc, handler>>

\* ------------------------------------------------------ auto-expiration
max0(x) == IF x > 0 THEN x ELSE 0

\* The loop taken when current_total > 0:  <<current_total, next_roll, removed>>
RECURSIVE roll_while_positive(_, _, _, _, _)
roll_while_positive(current_total, next_roll, removed, perfect_date, today_date) ==
    IF next_roll <= today_date /\ current_total > 0
    THEN roll_while_positive(max0(current_total - 2),
                             step_next_due(next_roll, perfect_date),
                             removed + 1, perfect_date, today_date)
    ELSE <<current_total, next_roll, removed>>

\* The loop taken when there is no point to remove: the bumped due date
RECURSIVE roll_while_overdue(_, _, _)
roll_while_overdue(next_roll, perfect_date, today_date) ==
    IF next_roll <= today_date
    THEN roll_while_overdue(step_next_due(next_roll, perfect_date), perfect_date, today_date)
    ELSE next_roll

\* One employee of the run: [total, next_roll, removed]
expire_employee(row, today_date) ==
    LET current_total == row.point_total
        next_roll == row.rolloff_date
        perfect_date == IF row.last_point_date # NoDate
                        THEN three_months_then_first(row.last_point_date)
                        ELSE DATE_MIN
    IN  IF current_total > 0
        THEN LET r == roll_while_positive(current_total, next_roll, 0,
                                          perfect_date, today_date)
             IN  [total |-> r[1], next_roll |-> r[2], removed |-> r[3]]
        ELSE [total |-> current_total,
              next_roll |-> roll_while_overdue(next_roll, perfect_date, today_date),
              removed |-> 0]

\* the UPDATE of the run without the new due date
expire_update_total_only(row, total, next_roll) ==
    [row EXCEPT !.point_total = total]

\* the UPDATE of the run taking the new due date as the new anchor as well
expire_update_moving_anchor(row, total, next_roll) ==
    [row EXCEPT !.point_total = total, !.rolloff_date = next_roll,
                !.last_point_date = next_roll]

\* UPDATE employees SET point_total = ?, rolloff_date = ?  (a deduction occurred)
expire_update(row, total, next_roll) ==
    [row EXCEPT !.point_total = total, !.rolloff_date = next_roll]

\* SELECT ... WHERE rolloff_date IS NOT NULL AND date(rolloff_date) <= date('now').
\* The two clock reads of one run (date.today() and date('now')) show the same day.
expired_recs(emps, today_date) ==
    { e \in DOMAIN emps : emps[e].rolloff_date # NoDate /\ emps[e].rolloff_date <= today_date }

auto_expire_points ==
    LET recs == expired_recs(employees, today)
        res == [e \in recs |-> expire_employee(employees[e], today)]
        deducted == { e \in recs : res[e].removed > 0 }
        \* rows are inserted in the order of the SELECT (employee_id)
        new_id(e) == next_id + Cardinality({ f \in deducted : f < e })
    IN  /\ next_id + Cardinality(deducted) - 1 <= MaxId
        /\ employees' =
              [e \in DOMAIN employees |->
                 IF e \in deducted
                 THEN expire_update(employees[e], res[e].total, res[e].next_roll)
                 ELSE IF e \in recs /\ res[e].next_roll # employees[e].rolloff_date
                 THEN [employees[e] EXCEPT !.rolloff_date = res[e].next_roll]
                 ELSE employees[e]]
        /\ points_history' = points_history \cup
              { HistoryRow(new_id(e), e, today, -2 * res[e].removed, "AUTO") : e \in deducted }
        /\ next_id' = next_id + Cardinality(deducted)
        /\ log_rows' = { [emp_id |-> e, run_date |-> today,
                          removed |-> res[e].removed, total |-> res[e].total] : e \in deducted }
        /\ lastOp' = [Op("auto_expire", NoSelection, EmptyText, "", TRUE)
                         EXCEPT !.nth = IF lastOp.kind = "auto_expire" THEN 2 ELSE 1]
        /\ UNCHANGED <<undo_history, today, calc, handler>>

\* ------------------------------------------- the handlers, statement by statement
\* employees and points_history are the tables as committed; a handler between
\* two statements holds the tables as its open transaction sees them (emps,
\* hist) and the tables as it found them (before).  A crash loses the open
\* transaction and the undo history, which lives in memory.
Stmt(op, step, emp_id, point_id, pts, iso_date, emps, hist) ==
    [op |-> op, step |-> step, emp_id |-> emp_id, point_id |-> point_id, pts |-> pts,
     iso_date |-> iso_date, emps |-> emps, hist |-> hist,
     before |-> [emps |-> employees, hist |-> points_history]]

\* _add_point: INSERT INTO points_history
add_point_insert ==
    /\ handler = Idle
    /\ next_id <= MaxCrashId
    /\ \E sel \in DOMAIN employees, entry \in MainEntries :
        handler' = Stmt("add_point", "inserted", sel, next_id, float_of(entry[2]),
                        parse_us_to_iso(entry[1]), employees,
                        points_history \cup { HistoryRow(next_id, sel,
                              parse_us_to_iso(entry[1]), float_of(entry[2]), "") })
    /\ UNCHANGED <<employees, points_history, next_id, undo_history, today, log_rows, lastOp, calc>>

\* _add_point: UPDATE employees
add_point_update_stmt ==
    /\ handler.op = "add_point" /\ handler.step = "inserted"
    /\ handler' = [handler EXCEPT !.step = "updated",
                      !.emps = update_row(handler.emps, handler.emp_id,
                                  add_point_update(handler.emps[handler.emp_id],
                                                   handler.pts, handler.iso_date))]
    /\ UNCHANGED <<employees, points_history, next_id, undo_history, today, log_rows, lastOp, calc>>

\* _add_point: conn.commit() and the push on the undo history
add_point_commit ==
    /\ handler.op = "add_point" /\ handler.step = "updated"
    /\ employees' = handler.emps
    /\ points_history' = handler.hist
    /\ next_id' = next_id + 1
    /\ undo_history' = undo_push(undo_history,
            UndoEntry(handler.point_id, handler.emp_id, handler.pts,
                      employees[handler.emp_id].point_total,
                      employees[handler.emp_id].last_point_date))
    /\ handler' = Idle
    /\ lastOp' = Op("add_point", handler.emp_id, EmptyText, "", TRUE)
    /\ UNCHANGED <<today, log_rows, calc>>

\* _undo_point: undo_history.pop() and DELETE FROM points_history
undo_point_delete ==
    /\ handler = Idle
    /\ undo_history # << >>
    /\ LET action == undo_history[Len(undo_history)]
       IN  handler' = Stmt("undo_point", "deleted", action.emp_id, action.point_id, 0, NoDate,
                           employees, { r \in points_history : r.id # action.point_id })
    /\ undo_history' = SubSeq(undo_history, 1, Len(undo_history) - 1)
    /\ UNCHANGED <<employees, points_history, next_id, today, log_rows, lastOp, calc>>

\* _undo_point: SELECT MAX, SUM and UPDATE employees
undo_point_update_stmt ==
    /\ handler.op = "undo_point" /\ handler.step = "deleted"
    /\ handler' = [handler EXCEPT !.step = "updated",
                      !.emps = IF handler.emp_id \in DOMAIN handler.emps
                               THEN update_row(handler.emps, handler.emp_id,
                                        undo_point_update(handler.emps[handler.emp_id],
                                                          handler.hist, handler.emp_id))
                               ELSE handler.emps]
    /\ UNCHANGED <<employees, points_history, next_id, undo_history, today, log_rows, lastOp, calc>>

\* _undo_point: conn.commit()
undo_point_commit ==
    /\ handler.op = "undo_point" /\ handler.step = "updated"
    /\ employees' = handler.emps
    /\ points_history' = handler.hist
    /\ handler' = Idle
    /\ lastOp' = Op("undo_point", handler.emp_id, EmptyText, "", TRUE)
    /\ UNCHANGED <<next_id, undo_history, today, log_rows, calc>>

\* delete_selected: DELETE FROM points_history
delete_selected_delete ==
    /\ handler = Idle
    /\ \E r \in points_history :
        handler' = Stmt("delete_point", "deleted", r.employee_id, r.id, 0, NoDate,
                        employees, points_history \ {r})
    /\ UNCHANGED <<employees, points_history, next_id, undo_history, today, log_rows, lastOp, calc>>

\* delete_selected: conn.commit(), before recompute_employee_after_change is called
delete_selected_commit ==
    /\ handler.op = "delete_point" /\ handler.step = "deleted"
    /\ points_history' = handler.hist
    /\ handler' = [handler EXCEPT !.step = "committed"]
    /\ UNCHANGED <<employees, next_id, undo_history, today, log_rows, lastOp, calc>>

\* recompute_employee_after_change: SELECT MAX, SUM and UPDATE employees
recompute_update_stmt ==
    /\ handler.op = "delete_point" /\ handler.step = "committed"
    /\ handler' = [handler EXCEPT !.step = "recomputed",
                      !.emps = update_row(handler.emps, handler.emp_id,
                                  recompute_employee_after_change(
                                      handler.emps[handler.emp_id], handler.hist,
                                      handler.emp_id))]
    /\ UNCHANGED <<employees, points_history, next_id, undo_history, today, log_rows, lastOp, calc>>

\* recompute_employee_after_change: conn.commit()
recompute_commit ==
    /\ handler.op = "delete_point" /\ handler.step = "recomputed"
    /\ employees' = handler.emps
    /\ handler' = Idle
    /\ lastOp' = Op("delete_point", handler.emp_id, EmptyText, "", TRUE)
    /\ UNCHANGED <<points_history, next_id, undo_history, today, log_rows, calc>>

\* auto_expire_points: the SELECT of the employees that are due
run_select ==
    /\ handler = Idle
    /\ LET recs == expired_recs(employees, today)
           deducted == { e \in recs : expire_employee(employees[e], today).removed > 0 }
       IN  /\ next_id + Cardinality(deducted) - 1 <= MaxRunId
           /\ handler' = [op |-> "auto_expire", step |-> "loop", emp_id |-> NoSelection,
                          todo |-> recs, removed |-> 0, total |-> 0,
                          emps |-> employees, hist |-> points_history,
                          nid |-> next_id, rows |-> {},
                          before |-> [emps |-> employees, hist |-> points_history]]
    /\ UNCHANGED <<employees, points_history, next_id, undo_history, today, log_rows, lastOp, calc>>

\* an UPDATE of the run that is committed at once
run_update_autocommit ==
    /\ handler.op = "auto_expire" /\ handler.step = "loop" /\ handler.todo # {}
    /\ LET e == CHOOSE x \in handler.todo : \A y \in handler.todo : x <= y
           rec == expire_employee(handler.emps[e], today)
           row == IF rec.removed > 0
                  THEN expire_update(handler.emps[e], rec.total, rec.next_roll)
                  ELSE [handler.emps[e] EXCEPT !.rolloff_date = rec.next_roll]
       IN  /\ handler' = IF rec.removed > 0
                         THEN [handler EXCEPT !.step = "updated", !.emp_id = e,
                                  !.removed = rec.removed, !.total = rec.total,
                                  !.emps = update_row(handler.emps, e, row)]
                         ELSE [handler EXCEPT !.todo = handler.todo \ {e},
                                  !.emps = update_row(handler.emps, e, row)]
           /\ employees' = update_row(employees, e, row)
    /\ UNCHANGED <<points_history, next_id, undo_history, today, log_rows, lastOp, calc>>

\* the loop body with an UPDATE that resets the perfect-attendance date as well
run_update_resetting_perfect ==
    /\ handler.op = "auto_expire" /\ handler.step = "loop" /\ handler.todo # {}
    /\ LET e == CHOOSE x \in handler.todo : \A y \in handler.todo : x <= y
           rec == expire_employee(handler.emps[e], today)
       IN  handler' =
             IF rec.removed > 0
             THEN [handler EXCEPT !.step = "updated", !.emp_id = e,
                      !.removed = rec.removed, !.total = rec.total,
                      !.emps = update_row(handler.emps, e,
                                  [expire_update(handler.emps[e], rec.total, rec.next_roll)
                                     EXCEPT !.perfect_attendance = NoDate])]
             ELSE [handler EXCEPT !.todo = handler.todo \ {e},
                      !.emps = IF rec.next_roll # handler.emps[e].rolloff_date
                               THEN update_row(handler.emps, e,
                                       [handler.emps[e] EXCEPT !.rolloff_date = rec.next_roll])
                               ELSE handler.emps]
    /\ UNCHANGED <<employees, points_history, next_id, undo_history, today, log_rows, lastOp, calc>>

\* auto_expire_points: the next employee of the loop, up to its UPDATE
run_update ==
    /\ handler.op = "auto_expire" /\ handler.step = "loop" /\ handler.todo # {}
    /\ LET e == CHOOSE x \in handler.todo : \A y \in handler.todo : x <= y
           rec == expire_employee(handler.emps[e], today)
       IN  handler' =
             IF rec.removed > 0
             THEN [handler EXCEPT !.step = "updated", !.emp_id = e,
                      !.removed = rec.removed, !.total = rec.total,
                      !.emps = update_row(handler.emps, e,
                                  expire_update(handler.emps[e], rec.total, rec.next_roll))]
             ELSE [handler EXCEPT !.todo = handler.todo \ {e},
                      !.emps = IF rec.next_roll # handler.emps[e].rolloff_date
                               THEN update_row(handler.emps, e,
                                       [handler.emps[e] EXCEPT !.rolloff_date = rec.next_roll])
                               ELSE handler.emps]
    /\ UNCHANGED <<employees, points_history, next_id, undo_history, today, log_rows, lastOp, calc>>

\* the INSERT of one audit event for each deduction, with one log row
run_insert_per_deduction ==
    /\ handler.op = "auto_expire" /\ handler.step = "updated"
    /\ handler' = [handler EXCEPT
                      !.step = "loop",
                      !.todo = handler.todo \ {handler.emp_id},
                      !.hist = handler.hist \cup
                                 { HistoryRow(handler.nid, handler.emp_id, today,
                                              -2, "AUTO") },
                      !.nid = handler.nid + 1,
                      !.rows = handler.rows \cup
                                 { [emp_id |-> handler.emp_id, run_date |-> today,
                                    removed |-> handler.removed, total |-> handler.total] }]
    /\ UNCHANGED <<employees, points_history, next_id, undo_history, today, log_rows, lastOp, calc>>

\* auto_expire_points: the INSERT of the audit event and the CSV log row
run_insert ==
    /\ handler.op = "auto_expire" /\ handler.step = "updated"
    /\ handler' = [handler EXCEPT
                      !.step = "loop",
                      !.todo = handler.todo \ {handler.emp_id},
                      !.hist = handler.hist \cup
                                 { HistoryRow(handler.nid, handler.emp_id, today,
                                              -2 * handler.removed, "AUTO") },
                      !.nid = handler.nid + 1,
                      !.rows = handler.rows \cup
                                 { [emp_id |-> handler.emp_id, run_date |-> today,
                                    removed |-> handler.removed, total |-> handler.total] }]
    /\ UNCHANGED <<employees, points_history, next_id, undo_history, today, log_rows, lastOp, calc>>

\* auto_expire_points: conn.commit() after the loop
run_commit ==
    /\ handler.op = "auto_expire" /\ handler.step = "loop" /\ handler.todo = {}
    /\ employees' = handler.emps
    /\ points_history' = handler.hist
    /\ next_id' = handler.nid
    /\ log_rows' = handler.rows
    /\ handler' = Idle
    /\ lastOp' = [Op("auto_expire", NoSelection, EmptyText, "", TRUE)
                     EXCEPT !.nth = IF lastOp.kind = "auto_expire" THEN 2 ELSE 1]
    /\ UNCHANGED <<undo_history, today, calc>>

\* the process dies between two statements of a handler: SQLite rolls the open
\* transaction back when the file is opened again
crash ==
    /\ handler.op \notin {"idle", "crashed"}
    /\ handler' = [op |-> "crashed", of |-> handler]
    /\ undo_history' = << >>
    /\ lastOp' = Op("crash", handler.emp_id, EmptyText, "", FALSE)
    /\ UNCHANGED <<employees, points_history, next_id, today, log_rows, calc>>

\* the application is started again
restart ==
    /\ handler.op = "crashed"
    /\ handler' = Idle
    /\ lastOp' = Op("restart", NoSelection, EmptyText, "", TRUE)
    /\ UNCHANGED <<employees, points_history, next_id, undo_history, today, log_rows, calc>>

\* ------------------------------------- attendance_gui_admin_beta6 (legacy)
\* the texts of the Employee ID entry of the legacy Add Employee dialog
LegacyIdInputs == {"100", "0", "-1", "abc", ""}

\* str.isdigit()
isdigit(txt) == txt \in {"100", "0"}

\* int(s), for the texts str.isdigit() accepts
int_of(txt) == CASE txt = "100" -> 100 [] txt = "0" -> 0 [] OTHER -> NoSelection

\* the (date text, value text) entries the legacy add_point is given
LegacyEntries ==
    { <<DateText("/", 1, 20, 2025), "1.0">>, <<DateText("/", 11, 30, 2024), "0.5">>,
      <<DateText("-", 1, 20, 2025), "1.0">>, <<DateText("/", 1, 20, 2025), "1.5">> }

\* legacy parse_us_to_iso: strptime(s, "%m/%d/%Y")
legacy_parse_us_to_iso(s) ==
    IF s.sep = "/" THEN parse_us_to_iso(s) ELSE NoDate

\* PRAGMA foreign_keys of the connection conn() hands to the frames: the pragma
\* of SCHEMA_BASE is run on the connection of init_db, which is closed again,
\* and sqlite3.connect() opens every connection with enforcement off
legacy_foreign_keys == FALSE

LegacyEmployeeRow(last, perfect, roll, warn) ==
    [last_point_date |-> last, perfect_bonus |-> perfect, rolloff_date |-> roll,
     last_rolloff2m_applied |-> NoDate, point_warning_date |-> warn]

\* SELECT MAX(date) FROM points WHERE employee_id=? AND value>0
last_positive_point_date(hist, emp_id) ==
    LET pos == { r \in rows_of(hist, emp_id) : r.points > 0 }
    IN  IF pos = {} THEN NoDate
        ELSE CHOOSE d \in { r.point_date : r \in pos } : \A r \in pos : r.point_date <= d

\* SELECT COALESCE(ROUND(SUM(value),2),0.0) FROM points WHERE employee_id=?
current_total(hist, emp_id) == sum_points(rows_of(hist, emp_id))

RECURSIVE step_past(_, _, _)
\* while x <= t: x = add_months(x, n)
step_past(x, n, t) == IF x <= t THEN step_past(add_months(x, n), n, t) ELSE x

recalc_emp_dates(row, hist, emp_id, t) ==
    LET lpp == last_positive_point_date(hist, emp_id)
    IN  IF lpp = NoDate THEN row
        ELSE [row EXCEPT
                !.last_point_date = lpp,
                !.perfect_bonus = step_past(first_of_next_month(add_months(lpp, 3)), 3, t),
                !.rolloff_date = step_past(first_of_next_month(add_months(lpp, 2)), 2, t)]

\* EmployeesFrame.add_employee_dialog.do_add
legacy_do_add ==
    \E txt \in LegacyIdInputs, names_ok \in BOOLEAN :
        LET emp_id == int_of(txt)
            accepted == isdigit(txt) /\ names_ok /\ emp_id \notin DOMAIN employees
        IN  /\ employees' =
                IF accepted
                THEN [e \in DOMAIN employees \cup {emp_id} |->
                        IF e = emp_id
                        THEN LegacyEmployeeRow(NoDate,
                                first_of_next_month(add_months(today, 3)),
                                first_of_next_month(add_months(today, 2)), NoDate)
                        ELSE employees[e]]
                ELSE employees
            /\ lastOp' = Op("legacy_add_employee", emp_id, EmptyText, txt, accepted)
            /\ UNCHANGED <<points_history, next_id, undo_history, today, log_rows, calc, handler>>

\* PointsFrame.add_point (totals in half points: 8.0 is 16, 5.0 is 10, 6.0 is 12)
legacy_add_point ==
    \E emp_id \in DOMAIN employees, entry \in LegacyEntries, warn_yes \in BOOLEAN :
        LET ds_iso == legacy_parse_us_to_iso(entry[1])
            val == float_of(entry[2])
            before == current_total(points_history, emp_id)
            passes == /\ ds_iso # NoDate
                      /\ val \in {1, 2}
                      /\ before < 16
                      /\ before + val <= 16
            hist == points_history \cup {HistoryRow(next_id, emp_id, ds_iso, val, "")}
            after == current_total(hist, emp_id)
            row == recalc_emp_dates([employees[emp_id] EXCEPT !.last_point_date = ds_iso],
                                    hist, emp_id, today)
        IN  /\ passes => next_id <= MaxId
            /\ points_history' = IF passes THEN hist ELSE points_history
            /\ next_id' = IF passes THEN next_id + 1 ELSE next_id
            /\ employees' =
                IF ~passes THEN employees
                ELSE IF before < 10 /\ 10 <= after /\ after <= 12 /\ warn_yes
                THEN [employees EXCEPT ![emp_id] = [row EXCEPT !.point_warning_date = today]]
                ELSE [employees EXCEPT ![emp_id] = row]
            /\ lastOp' = Op("legacy_add_point", emp_id, entry[1], entry[2], passes)
            /\ UNCHANGED <<undo_history, today, log_rows, calc, handler>>

\* EmployeesFrame.delete_employee: DELETE FROM employees, the points going with
\* the employee only where the connection enforces ON DELETE CASCADE
\* months_with_positive_points: the (year, month) pairs of the positive events
months_with_positive_points(hist, emp_id) ==
    { <<year(r.point_date), month(r.point_date)>> :
        r \in { q \in rows_of(hist, emp_id) : q.points > 0 } }

\* the roll-off that never finds an earlier entry
no_duplicate_rolloff_check(hist, emp_id, iso_date, flag) == FALSE

\* ensure_no_duplicate_rolloff_entry: TRUE when the entry is already there
ensure_no_duplicate_rolloff_entry(hist, emp_id, iso_date, flag) ==
    \E r \in rows_of(hist, emp_id) : r.point_date = iso_date /\ r.flag_code = flag

\* apply_2m_rolloff: the walk over the months from the baseline to this month,
\* giving the credit dates in the order they are appended
RECURSIVE credit_dates(_, _, _, _, _)
credit_dates(current_m, consecutive, pos, limit, t) ==
    IF current_m < limit
    THEN LET next_m == first_of_next_month(current_m)
         IN  IF <<year(current_m), month(current_m)>> \in pos
             THEN credit_dates(next_m, 0, pos, limit, t)
             ELSE IF consecutive + 1 = 2
             THEN (IF next_m <= t THEN <<next_m>> ELSE << >>)
                     \o credit_dates(next_m, 0, pos, limit, t)
             ELSE credit_dates(next_m, consecutive + 1, pos, limit, t)
    ELSE << >>

\* apply_2m_rolloff: the loop over the credit dates of one employee
RECURSIVE apply_credits(_, _, _, _, _, _)
apply_credits(credits, hist, emp_id, nid, last_applied, total_rolled) ==
    IF credits = << >>
    THEN [hist |-> hist, nid |-> nid, last_applied |-> last_applied,
          total_rolled |-> total_rolled]
    ELSE LET ev == Head(credits)
             total_now == current_total(hist, emp_id)
             amount == IF total_now >= 2 THEN 2 ELSE total_now
         IN  IF ensure_no_duplicate_rolloff_entry(hist, emp_id, ev, "2M")
             THEN apply_credits(Tail(credits), hist, emp_id, nid, last_applied, total_rolled)
             ELSE IF total_now <= 0
             THEN [hist |-> hist, nid |-> nid, last_applied |-> last_applied,
                   total_rolled |-> total_rolled]
             ELSE apply_credits(Tail(credits),
                                hist \cup {HistoryRow(nid, emp_id, ev, -amount, "2M")},
                                emp_id, nid + 1, ev, total_rolled + amount)

\* apply_2m_rolloff: one employee of the loop
rolloff_2m_employee(row, hist, emp_id, nid, t) ==
    LET pos == months_with_positive_points(hist, emp_id)
        lpp == last_positive_point_date(hist, emp_id)
        baseline == IF row.last_rolloff2m_applied # NoDate
                    THEN row.last_rolloff2m_applied ELSE lpp
    IN  IF lpp = NoDate
        THEN [hist |-> hist, nid |-> nid, last_applied |-> row.last_rolloff2m_applied,
              total_rolled |-> 0]
        ELSE apply_credits(credit_dates(first_of_next_month(baseline), 0, pos,
                                        first_of_month(t), t),
                           hist, emp_id, nid, row.last_rolloff2m_applied, 0)

\* apply_2m_rolloff: the loop over the employees, in the order of the SELECT
RECURSIVE rolloff_2m_loop(_, _, _, _, _, _)
rolloff_2m_loop(todo, emps, hist, nid, results, t) ==
    IF todo = {}
    THEN [emps |-> emps, hist |-> hist, nid |-> nid, results |-> results]
    ELSE LET emp_id == CHOOSE x \in todo : \A y \in todo : x <= y
             r == rolloff_2m_employee(emps[emp_id], hist, emp_id, nid, t)
         IN  rolloff_2m_loop(todo \ {emp_id},
                 [emps EXCEPT ![emp_id].last_rolloff2m_applied = r.last_applied],
                 r.hist, r.nid,
                 IF r.total_rolled > 0
                 THEN results \cup {[emp_id |-> emp_id, run_date |-> t,
                                     removed |-> r.total_rolled,
                                     total |-> current_total(r.hist, emp_id)]}
                 ELSE results,
                 t)

\* rolloff_2m: apply_2m_rolloff with its recalc_all, and the commit
legacy_rolloff_2m ==
    LET r == rolloff_2m_loop(DOMAIN employees, employees, points_history, next_id, {}, today)
    IN  /\ r.nid - 1 <= MaxLegacyId
        /\ points_history' = r.hist
        /\ next_id' = r.nid
        /\ employees' = [e \in DOMAIN employees |-> recalc_emp_dates(r.emps[e], r.hist, e, today)]
        /\ log_rows' = r.results
        /\ lastOp' = [Op("legacy_rolloff_2m", NoSelection, EmptyText, "", TRUE)
                         EXCEPT !.nth = IF lastOp.kind = "legacy_rolloff_2m" THEN 2 ELSE 1]
        /\ UNCHANGED <<undo_history, today, calc, handler>>

legacy_delete_employee ==
    \E emp_id \in DOMAIN employees :
        /\ employees' = [e \in DOMAIN employees \ {emp_id} |-> employees[e]]
        /\ points_history' =
            IF legacy_foreign_keys
            THEN { r \in points_history : r.employee_id # emp_id }
            ELSE points_history
        /\ lastOp' = Op("legacy_delete_employee", emp_id, EmptyText, "", TRUE)
        /\ UNCHANGED <<next_id, undo_history, today, log_rows, calc, handler>>

\* ---------------------------------------------------------- specification
add_employee == add_employee_from(EmpIds)

add_point == add_point_from(EmpIds, MainEntries, {TRUE}, MaxId)

add_point_any ==
    add_point_from(EmpIds \cup {NoSelection}, DateInputs \X PointInputs, BOOLEAN, MaxInputId)

Next ==
    \/ add_employee
    \/ delete_selected_employees
    \/ add_point
    \/ undo_point
    \/ delete_selected
    \/ auto_expire_points
    \/ Tick

Spec == Init /\ [][Next]_vars

\* _add_point on every form of input, on a store of at most MaxInputId events
NextInputs ==
    \/ add_employee
    \/ add_point_any
    \/ undo_point

SpecInputs == Init /\ [][NextInputs]_vars

\* the entry _add_point is given in SpecUndo
UndoEntries == { <<DateText("/", 1, 20, 2025), "0.5">> }

\* _add_point for a user who adds events first and undoes them afterwards:
\* it is taken while every event added so far is still in the ledger
add_point_undoable ==
    /\ Cardinality(points_history) = next_id - 1
    /\ add_point_from(EmpIds, UndoEntries, {TRUE}, MaxUndoId)

\* adding, then undoing, on a store of at most MaxUndoId events
NextUndo ==
    \/ add_employee
    \/ add_point_undoable
    \/ undo_point

SpecUndo == Init /\ [][NextUndo]_vars

\* ------------------------------------------------- the functions, called
\* The functions are pure: one call from the initial state, on every argument,
\* shows all they do.
\* the dates the calendar functions are called with
CalendarYears == {1900, 2000, 2023, 2024, 2025}

CalendarDays ==
    { x \in { mkdate(y, m, d) : y \in CalendarYears, m \in 1..12, d \in 1..31 } :
        day(x) <= strptime_days_in_month(year(x), month(x)) }

\* the due dates and perfect-attendance dates step_next_due is called with
DueDays == { mkdate(y, m, 1) : y \in {2024, 2025}, m \in 1..12 }

call_add_months ==
    /\ calc.fn = "none"
    /\ \E orig \in CalendarDays, months \in (0 - MaxMonths)..MaxMonths :
        /\ calc' = Call("add_months", orig, months, add_months(orig, months))
        /\ UNCHANGED <<employees, points_history, next_id, undo_history, today, log_rows, lastOp, handler>>

call_calc_rolloff_and_perfect ==
    /\ calc.fn = "none"
    /\ \E last_point \in CalendarDays :
        /\ calc' = Call("calc_rolloff_and_perfect", last_point, NoDate,
                        calc_rolloff_and_perfect(last_point))
        /\ UNCHANGED <<employees, points_history, next_id, undo_history, today, log_rows, lastOp, handler>>

call_step_next_due ==
    /\ calc.fn = "none"
    /\ \E current_due \in DueDays, perfect_date \in DueDays \cup {DATE_MIN} :
        /\ calc' = Call("step_next_due", current_due, perfect_date,
                        step_next_due(current_due, perfect_date))
        /\ UNCHANGED <<employees, points_history, next_id, undo_history, today, log_rows, lastOp, handler>>

\* the totals the dashboards classify, in half points (0.0 to MaxTotal / 2)
StatusTotals == 0..MaxTotal

\* _status_for_total with the cut points left in the lower band
status_for_total_strict(total) ==
    IF total > 14 THEN "Termination Risk"
    ELSE IF total > 10 THEN "Critical"
    ELSE IF total > 8 THEN "Warning"
    ELSE "Safe"

\* DashboardFrame._status_for_total of ATP_Beta7 (7.0 is 14, 5.0 is 10, 4.0 is 8)
status_for_total(total) ==
    IF total >= 14 THEN "Termination Risk"
    ELSE IF total >= 10 THEN "Critical"
    ELSE IF total >= 8 THEN "Warning"
    ELSE "Safe"

\* the status column of DashboardFrame._rows of ATP_Beta6_v6
\* (3.5 is 7, 7.0 is 14, 6.0 is 12, 4.0 is 8)
v6_rows_status(total_val) ==
    IF total_val <= 7 THEN "Safe"
    ELSE IF total_val >= 14 THEN "Termination Risk"
    ELSE IF total_val >= 12 THEN "Critical"
    ELSE IF total_val >= 8 THEN "Warning"
    ELSE "Safe"

\* the status column of DashboardFrame._rows of attendance_gui_admin_beta6,
\* the labels without their pictograms (5 is 10, 6 is 12, 8.0 is 16)
legacy_rows_status(total) ==
    IF total = 0 THEN "Safe"
    ELSE IF 10 <= total /\ total <= 12 THEN "Warning"
    ELSE IF total >= 16 THEN "TERMINATION LEVEL"
    ELSE IF total > 12 THEN "Critical"
    ELSE ""

call_status_for_total ==
    /\ calc.fn = "none"
    /\ \E total \in StatusTotals :
        /\ calc' = Call("status_for_total", total, NoDate, status_for_total(total))
        /\ UNCHANGED <<employees, points_history, next_id, undo_history, today, log_rows, lastOp, handler>>

call_v6_rows_status ==
    /\ calc.fn = "none"
    /\ \E total \in StatusTotals :
        /\ calc' = Call("v6_rows_status", total, NoDate, v6_rows_status(total))
        /\ UNCHANGED <<employees, points_history, next_id, undo_history, today, log_rows, lastOp, handler>>

call_legacy_rows_status ==
    /\ calc.fn = "none"
    /\ \E total \in StatusTotals :
        /\ calc' = Call("legacy_rows_status", total, NoDate, legacy_rows_status(total))
        /\ UNCHANGED <<employees, points_history, next_id, undo_history, today, log_rows, lastOp, handler>>

NextFunctions ==
    \/ call_add_months
    \/ call_calc_rolloff_and_perfect
    \/ call_step_next_due
    \/ call_status_for_total
    \/ call_v6_rows_status
    \/ call_legacy_rows_status

SpecFunctions == Init /\ [][NextFunctions]_vars

\* the ledger mutations statement by statement, with crashes
NextCrash ==
    \/ (handler = Idle /\ add_employee)
    \/ add_point_insert
    \/ add_point_update_stmt
    \/ add_point_commit
    \/ undo_point_delete
    \/ undo_point_update_stmt
    \/ undo_point_commit
    \/ delete_selected_delete
    \/ delete_selected_commit
    \/ recompute_update_stmt
    \/ recompute_commit
    \/ crash
    \/ restart

SpecCrash == Init /\ [][NextCrash]_vars

\* the employees and the entries of SpecRun
RunEmpIds == {100, 200}
RunEntries == { <<DateText("-", 11, 30, 2024), "0.5">>, <<DateText("-", 4, 15, 2025), "0.5">> }

\* the auto-expiration run statement by statement, with crashes
NextRun ==
    \/ (handler = Idle /\ add_employee_from(RunEmpIds))
    \/ (handler = Idle /\ add_point_from(RunEmpIds, RunEntries, {TRUE}, MaxRunId))
    \/ (handler = Idle /\ Tick)
    \/ run_select
    \/ run_update
    \/ run_insert
    \/ run_commit
    \/ crash
    \/ restart

SpecRun == Init /\ [][NextRun]_vars

\* two employees under the handlers of the main window
NextPair ==
    \/ add_employee_from(RunEmpIds)
    \/ add_point_from(RunEmpIds, RunEntries, {TRUE}, MaxId)
    \/ undo_point
    \/ delete_selected
    \/ delete_selected_employees
    \/ auto_expire_points
    \/ Tick

SpecPair == Init /\ [][NextPair]_vars

\* the legacy administration program on the same tables
NextLegacy ==
    \/ legacy_do_add
    \/ legacy_add_point
    \/ legacy_delete_employee
    \/ legacy_rolloff_2m
    \/ Tick

SpecLegacy == Init /\ [][NextLegacy]_vars

\* ================================================================ properties
\* the ledger of one employee, as the specification speaks of it
LedgerSum(e) == sum_points(rows_of(points_history, e))

PositiveDates(e) == { r.point_date : r \in { x \in rows_of(points_history, e) : x.points > 0 } }

MaxPositiveDate(e) ==
    IF PositiveDates(e) = {} THEN NoDate
    ELSE CHOOSE d \in PositiveDates(e) : \A x \in PositiveDates(e) : x <= d

Handler(kind) == lastOp.kind = kind /\ lastOp.ok

\* C1: in every reachable state the stored point_total of an employee equals
\* the sum of the magnitudes of that employee's ledger events (0 when none).
C1_TotalIsLedgerSum ==
    \A e \in DOMAIN employees : employees[e].point_total = LedgerSum(e)

\* C2: in every reachable state the stored last_point_date of an employee is
\* the latest date among that employee's positive-magnitude ledger events,
\* and NULL when there is none.
C2_AnchorIsMaxPositiveDate ==
    \A e \in DOMAIN employees : employees[e].last_point_date = MaxPositiveDate(e)

\* C3: a successful add followed immediately by undo leaves the employee's
\* point_total and last_point_date at the values they had just before the
\* add (the values the add recorded in its undo entry).
C3_UndoRestoresAggregate ==
    [][ (lastOp.kind = "add_point" /\ lastOp.ok /\ lastOp'.kind = "undo_point")
        => LET a == undo_history[Len(undo_history)]
           IN  /\ employees'[a.emp_id].point_total = a.old_total
               /\ employees'[a.emp_id].last_point_date = a.old_last_date ]_vars

\* C4: after an auto-expiration run no employee is left overdue: every
\* employee that has a rolloff_date has one strictly later than today (the
\* employees the run did not process had none, or one later than today).
C4_DueAfterToday ==
    Handler("auto_expire") =>
        \A e \in DOMAIN employees :
            employees[e].rolloff_date # NoDate => employees[e].rolloff_date > today

\* C5: an auto-expiration run that directly follows another one on the same
\* day deducts nothing: no point_total changes, no ledger event is inserted
\* and the run has no audit row.
C5_SecondRunDeductsNothing ==
    [][ (lastOp'.kind = "auto_expire" /\ lastOp'.nth = 2)
        => /\ \A e \in DOMAIN employees :
                employees'[e].point_total = employees[e].point_total
           /\ points_history' = points_history
           /\ next_id' = next_id
           /\ log_rows' = {} ]_vars

C5_Witness ==
    /\ lastOp.kind = "auto_expire" /\ lastOp.nth = 2
    /\ log_rows = {}
    /\ \E r \in points_history : r.flag_code = "AUTO" /\ r.point_date = today

\* C6: an auto-expiration run that directly follows another one on the same
\* day changes nothing at all: no total, no rolloff_date, no ledger event.
C6_SecondRunIsNoOp ==
    [][ (lastOp'.kind = "auto_expire" /\ lastOp'.nth = 2)
        => /\ employees' = employees
           /\ points_history' = points_history ]_vars

\* C7: recomputing an employee's aggregate from the ledger a second time,
\* with no ledger change in between, changes none of point_total,
\* last_point_date, rolloff_date, perfect_attendance; and right after a
\* delete (which recomputes once) a further recomputation changes nothing.
C7_RecomputeIdempotent ==
    \A e \in DOMAIN employees :
        LET once == recompute_employee_after_change(employees[e], points_history, e)
            twice == recompute_employee_after_change(once, points_history, e)
        IN  /\ twice = once
            /\ (Handler("delete_point") /\ lastOp.emp = e) => once = employees[e]

C7_Witness ==
    /\ Handler("delete_point")
    /\ \E e \in DOMAIN employees :
          /\ lastOp.emp = e
          /\ rows_of(points_history, e) # {}
          /\ employees[e].point_total > 0

\* C8: right after a successful add, delete or undo the employee's
\* rolloff_date and perfect_attendance are firstOfNextMonth(addMonths(anchor, 2))
\* and firstOfNextMonth(addMonths(anchor, 3)) of the stored last_point_date,
\* and both are NULL when last_point_date is NULL.
C8_DatesFollowAnchor ==
    \A e \in DOMAIN employees :
        ((Handler("add_point") \/ Handler("delete_point") \/ Handler("undo_point"))
          /\ lastOp.emp = e)
        => LET anchor == employees[e].last_point_date
           IN  IF anchor = NoDate
               THEN /\ employees[e].rolloff_date = NoDate
                    /\ employees[e].perfect_attendance = NoDate
               ELSE /\ employees[e].rolloff_date =
                          first_of_next_month(add_months(anchor, 2))
                    /\ employees[e].perfect_attendance =
                          first_of_next_month(add_months(anchor, 3))

\* two infractions were added and the later one deleted: the anchor and the
\* dates are those of the earlier one
C8_Witness ==
    /\ Handler("delete_point")
    /\ Len(undo_history) = 2
    /\ \E e \in DOMAIN employees :
          /\ lastOp.emp = e
          /\ { r.point_date : r \in rows_of(points_history, e) } = { mkdate(2024, 11, 30) }
          /\ employees[e].last_point_date = mkdate(2024, 11, 30)
          /\ employees[e].rolloff_date = mkdate(2025, 2, 1)
          /\ employees[e].perfect_attendance = mkdate(2025, 3, 1)

\* C9: an auto-expiration run, also one that deducts points and appends its
\* negative ledger event, leaves every employee's last_point_date as it was.
C9_RunKeepsAnchor ==
    [][ lastOp'.kind = "auto_expire"
        => /\ DOMAIN employees' = DOMAIN employees
           /\ \A e \in DOMAIN employees :
                employees'[e].last_point_date = employees[e].last_point_date ]_vars

\* infraction of 1.0 on 2025-01-20, rolled off to 0.0 by a -1.0 event
C9_Witness ==
    /\ lastOp.kind = "auto_expire"
    /\ \E e \in DOMAIN employees :
          /\ employees[e].last_point_date = mkdate(2025, 1, 20)
          /\ employees[e].point_total = 0
          /\ \E r \in rows_of(points_history, e) :
                r.flag_code = "AUTO" /\ r.points = -2 /\ r.point_date = today
          /\ \E row \in log_rows : row.emp_id = e

\* a date text in the accepted format (MM-DD-YYYY or MM/DD/YYYY) that names a
\* day of the Gregorian calendar
IsLeapYear(y) == y % 4 = 0 /\ (y % 100 # 0 \/ y % 400 = 0)

DaysOfMonth(y, m) ==
    IF m = 2 THEN (IF IsLeapYear(y) THEN 29 ELSE 28)
    ELSE IF m \in {4, 6, 9, 11} THEN 30 ELSE 31

ValidDateText(s) ==
    /\ s.sep \in {"-", "/"}
    /\ s.f1 \in 1..12
    /\ s.f3 \in 1..9999
    /\ s.f2 \in 1..DaysOfMonth(s.f3, s.f1)

\* a point text whose value is 0.5, 1.0 or 1.5
AllowedPointText(t) == float_of(t) \in {1, 2, 3}

\* C10: an add whose date text is not a valid date in the accepted format, or
\* whose point value is not 0.5, 1.0 or 1.5, changes neither the ledger nor
\* any employee row nor the undo history (so no default date is stored).
C10_InvalidAddChangesNothing ==
    [][ (lastOp'.kind = "add_point"
         /\ (~ValidDateText(lastOp'.din) \/ ~AllowedPointText(lastOp'.pin)))
        => UNCHANGED <<employees, points_history, next_id, undo_history>> ]_vars

C10_Witness ==
    /\ lastOp.kind = "add_point" /\ ~lastOp.ok
    /\ ~ValidDateText(lastOp.din) /\ lastOp.din # EmptyText
    /\ AllowedPointText(lastOp.pin)
    /\ lastOp.emp \in DOMAIN employees
    /\ points_history # {}

\* C11: an Add Employee request whose identifier is already present, or is not
\* positive, is rejected and changes neither the employees nor the rest of the
\* store (the employees table is keyed by employee_id, so no two rows ever
\* share an identifier)
C11_DuplicateOrNonPositiveRejected ==
    [][(/\ lastOp'.kind \in {"add_employee", "legacy_add_employee"}
        /\ (lastOp'.emp \in DOMAIN employees \/ lastOp'.emp <= 0))
       => UNCHANGED <<employees, points_history, next_id, undo_history>>]_vars

\* C14: every ledger event belongs to an existing employee
C14_NoOrphanedEvents ==
    \A r \in points_history : r.employee_id \in DOMAIN employees

\* C12: the undo log is a bounded last-in-first-out log: it never holds more
\* than 20 entries; an undo removes the newest entry of the log and the ledger
\* event that entry names; an add on a full log drops the oldest entry; and a
\* ledger event no entry names is never removed by an undo
C12_UndoLogBoundedLifo ==
    /\ [](Len(undo_history) <= 20)
    /\ [][(lastOp'.kind = "undo_point" /\ undo_history # << >>)
          => /\ undo_history' = SubSeq(undo_history, 1, Len(undo_history) - 1)
             /\ points_history' =
                  { r \in points_history : r.id # undo_history[Len(undo_history)].point_id }
             /\ \A r \in points_history :
                  (\A i \in 1..Len(undo_history) : undo_history[i].point_id # r.id)
                  => r \in points_history']_vars
    /\ [][(lastOp'.kind = "add_point" /\ lastOp'.ok /\ Len(undo_history) = 20)
          => /\ Len(undo_history') = 20
             /\ \A i \in 1..19 : undo_history'[i] = undo_history[i + 1]
             /\ undo_history'[20].point_id = next_id]_vars

\* 21 adds, 20 undos, and the 21st undo finds nothing: the first event is left
C12_Witness ==
    /\ lastOp.kind = "undo_point" /\ ~lastOp.ok
    /\ next_id = 22
    /\ undo_history = << >>
    /\ { r.id : r \in points_history } = {1}

\* C13: an undo on an empty undo log changes neither the ledger, nor any
\* employee, nor the undo log
C13_EmptyUndoIsNoOp ==
    [][(lastOp'.kind = "undo_point" /\ undo_history = << >>)
       => UNCHANGED <<employees, points_history, undo_history, next_id>>]_vars

C13_Witness ==
    /\ lastOp.kind = "undo_point" /\ ~lastOp.ok
    /\ undo_history = << >>
    /\ points_history # {}
    /\ \E e \in DOMAIN employees : employees[e].last_point_date # NoDate

\* the calendar as the specification words it
MonthIndex(d) == year(d) * 12 + (month(d) - 1)
RefAddMonths(d, n) ==
    LET k == MonthIndex(d) + n
        y == k \div 12
        m == (k % 12) + 1
        last == DaysOfMonth(y, m)
    IN  mkdate(y, m, IF day(d) <= last THEN day(d) ELSE last)
RefFirstOfNextMonth(d) == RefAddMonths(mkdate(year(d), month(d), 1), 1)

\* C15: calc_rolloff_and_perfect(d) is (firstOfNextMonth(addMonths(d, 2)),
\* firstOfNextMonth(addMonths(d, 3))); both are the first day of a month, the
\* perfect-attendance date is one calendar month after the roll-off date, and
\* 2025-01-15 gives (2025-04-01, 2025-05-01)
C15_PolicyDates ==
    calc.fn = "calc_rolloff_and_perfect" =>
        /\ calc.result = <<RefFirstOfNextMonth(RefAddMonths(calc.a, 2)),
                           RefFirstOfNextMonth(RefAddMonths(calc.a, 3))>>
        /\ day(calc.result[1]) = 1 /\ day(calc.result[2]) = 1
        /\ calc.result[2] = RefAddMonths(calc.result[1], 1)
        /\ (calc.a = mkdate(2025, 1, 15)
              => calc.result = <<mkdate(2025, 4, 1), mkdate(2025, 5, 1)>>)

C15_Witness ==
    calc = Call("calc_rolloff_and_perfect", mkdate(2025, 1, 15), NoDate,
                <<mkdate(2025, 4, 1), mkdate(2025, 5, 1)>>)

\* C16: add_months(date, n) is the date n calendar months away, n positive or
\* negative, with the day clamped to the length of the target month under the
\* Gregorian leap-year rule; 2024-01-31 + 1 = 2024-02-29, 2023-01-31 + 1 =
\* 2023-02-28
C16_AddMonths ==
    calc.fn = "add_months" =>
        /\ calc.result = RefAddMonths(calc.a, calc.b)
        /\ MonthIndex(calc.result) = MonthIndex(calc.a) + calc.b
        /\ (calc.a = mkdate(2024, 1, 31) /\ calc.b = 1 => calc.result = mkdate(2024, 2, 29))
        /\ (calc.a = mkdate(2023, 1, 31) /\ calc.b = 1 => calc.result = mkdate(2023, 2, 28))

\* thirteen months back from the end of March 2024, clamped
C16_Witness ==
    calc = Call("add_months", mkdate(2024, 3, 31), 0 - 13, mkdate(2023, 2, 28))

\* C17: step_next_due(currentDue, perfectAnchor) is
\* firstOfNextMonth(addMonths(perfectAnchor, 2)) when currentDue < perfectAnchor
\* and firstOfNextMonth(addMonths(currentDue, 2)) otherwise; with date.min as
\* the anchor the skip branch is never taken
C17_StepNextDue ==
    calc.fn = "step_next_due" =>
        /\ calc.result =
             IF calc.a < calc.b
             THEN RefFirstOfNextMonth(RefAddMonths(calc.b, 2))
             ELSE RefFirstOfNextMonth(RefAddMonths(calc.a, 2))
        /\ (calc.b = DATE_MIN => calc.result = RefFirstOfNextMonth(RefAddMonths(calc.a, 2)))

\* a due date before the perfect-attendance date: the step jumps past it
C17_Witness ==
    calc = Call("step_next_due", mkdate(2025, 2, 1), mkdate(2025, 3, 1), mkdate(2025, 6, 1))

\* the severity of a status label: Safe < Warning < Critical < Termination;
\* NoBand for a label that is none of the four
NoBand == 0 - 1
Severity(label) ==
    CASE label = "Safe" -> 0
      [] label = "Warning" -> 1
      [] label = "Critical" -> 2
      [] label \in {"Termination Risk", "TERMINATION LEVEL"} -> 3
      [] OTHER -> NoBand

\* the classification a call used
StatusOf(fn, total) ==
    CASE fn = "status_for_total" -> status_for_total(total)
      [] fn = "v6_rows_status" -> v6_rows_status(total)
      [] fn = "legacy_rows_status" -> legacy_rows_status(total)

\* C18: every total is given one of Safe, Warning, Critical, Termination Risk;
\* total 0 is Safe; the severity never decreases as the total grows; and in
\* Beta7 the totals 4.0, 5.0 and 7.0 are the first of Warning, Critical and
\* Termination Risk
C18_StatusBands ==
    calc.fn \in {"status_for_total", "v6_rows_status", "legacy_rows_status"} =>
        /\ Severity(calc.result) \in 0..3
        /\ (calc.a = 0 => calc.result = "Safe")
        /\ \A t \in StatusTotals :
              t <= calc.a => Severity(StatusOf(calc.fn, t)) <= Severity(calc.result)
        /\ (calc.fn = "status_for_total" =>
              /\ (calc.a = 8 => calc.result = "Warning")
              /\ (calc.a = 7 => calc.result = "Safe")
              /\ (calc.a = 10 => calc.result = "Critical")
              /\ (calc.a = 9 => calc.result = "Warning")
              /\ (calc.a = 14 => calc.result = "Termination Risk")
              /\ (calc.a = 13 => calc.result = "Critical"))

\* C18, amended: Beta7 and Beta6_v6 give every total one of the four labels, the
\* legacy administration dashboard gives the totals strictly between 0 and 5.0
\* no label; in all three total 0 is Safe and, among the totals that have a
\* label, the severity never decreases as the total grows; in Beta7 the totals
\* 4.0, 5.0 and 7.0 are the first of Warning, Critical and Termination Risk
C18_StatusBandsAmended ==
    calc.fn \in {"status_for_total", "v6_rows_status", "legacy_rows_status"} =>
        /\ (calc.fn # "legacy_rows_status" => Severity(calc.result) \in 0..3)
        /\ (calc.fn = "legacy_rows_status" =>
              (Severity(calc.result) = NoBand <=> (0 < calc.a /\ calc.a < 10)))
        /\ (calc.a = 0 => calc.result = "Safe")
        /\ \A t \in StatusTotals :
              (t <= calc.a /\ Severity(calc.result) # NoBand)
              => Severity(StatusOf(calc.fn, t)) <= Severity(calc.result)
        /\ (calc.fn = "status_for_total" =>
              /\ (calc.a = 8 => calc.result = "Warning")
              /\ (calc.a = 7 => calc.result = "Safe")
              /\ (calc.a = 10 => calc.result = "Critical")
              /\ (calc.a = 9 => calc.result = "Warning")
              /\ (calc.a = 14 => calc.result = "Termination Risk")
              /\ (calc.a = 13 => calc.result = "Critical"))

\* Beta7 classifies the total 5.0, a cut point
C18_Witness == calc = Call("status_for_total", 10, NoDate, "Critical")

\* the tables as a ledger mutation leaves them when it runs to its end
AfterMutation(h) ==
    LET e == h.emp_id
        b == h.before
    IN  CASE h.op = "add_point" ->
               [emps |-> update_row(b.emps, e, add_point_update(b.emps[e], h.pts, h.iso_date)),
                hist |-> b.hist \cup { HistoryRow(h.point_id, e, h.iso_date, h.pts, "") }]
          [] h.op = "undo_point" ->
               LET hist == { r \in b.hist : r.id # h.point_id }
               IN  [emps |-> IF e \in DOMAIN b.emps
                             THEN update_row(b.emps, e, undo_point_update(b.emps[e], hist, e))
                             ELSE b.emps,
                    hist |-> hist]
          [] h.op = "delete_point" ->
               LET hist == { r \in b.hist : r.id # h.point_id }
               IN  [emps |-> update_row(b.emps, e,
                                recompute_employee_after_change(b.emps[e], hist, e)),
                    hist |-> hist]

\* C19: after a crash inside a ledger mutation the committed tables are those
\* from before the mutation or those the whole mutation leaves
C19_CrashLeavesBeforeOrAfter ==
    (handler.op = "crashed" /\ handler.of.op \in {"add_point", "undo_point", "delete_point"})
    => \/ [emps |-> employees, hist |-> points_history] = handler.of.before
       \/ [emps |-> employees, hist |-> points_history] = AfterMutation(handler.of)

\* the employee row as a whole run leaves it
AfterRunRow(row, today_date) ==
    IF row.rolloff_date # NoDate /\ row.rolloff_date <= today_date
    THEN LET rec == expire_employee(row, today_date)
         IN  IF rec.removed > 0
             THEN expire_update(row, rec.total, rec.next_roll)
             ELSE [row EXCEPT !.rolloff_date = rec.next_roll]
    ELSE row

\* C20: after a crash inside an auto-expiration run every employee has either
\* none of the run's changes in the committed tables (row and ledger as before)
\* or all of them (new total, new due date and the AUTO event of the run), and
\* a run started from the committed tables brings every total to what one
\* uninterrupted run would have brought it to
C20_RunAtomicPerEmployee ==
    (handler.op = "crashed" /\ handler.of.op = "auto_expire")
    => \A e \in DOMAIN handler.of.before.emps :
         LET b == handler.of.before
             rec == expire_employee(b.emps[e], today)
         IN  /\ e \in DOMAIN employees
             /\ \/ /\ employees[e] = b.emps[e]
                   /\ rows_of(points_history, e) = rows_of(b.hist, e)
                \/ /\ employees[e] = AfterRunRow(b.emps[e], today)
                   /\ \E r \in rows_of(points_history, e) :
                        /\ r.flag_code = "AUTO" /\ r.point_date = today
                        /\ r.points = -2 * rec.removed
                        /\ rows_of(points_history, e) = rows_of(b.hist, e) \cup {r}
             /\ AfterRunRow(employees[e], today).point_total
                  = AfterRunRow(b.emps[e], today).point_total

\* the crash comes after one employee's UPDATE and INSERT and the UPDATE of a
\* second employee
C20_Witness ==
    /\ handler.op = "crashed" /\ handler.of.op = "auto_expire"
    /\ handler.of.step = "updated"
    /\ handler.of.hist # handler.of.before.hist
    /\ handler.of.emps[handler.of.emp_id].point_total
         < handler.of.before.emps[handler.of.emp_id].point_total

\* the identifiers of the events in the ledger
EventIds(hist) == { r.id : r \in hist }

\* C21: an undo whose recorded event is no longer in the ledger reports a
\* failure and changes neither the ledger nor any employee's aggregate
C21_UndoOfMissingEventNotFound ==
    [][(/\ lastOp'.kind = "undo_point"
        /\ undo_history # << >>
        /\ undo_history[Len(undo_history)].point_id \notin EventIds(points_history))
       => (/\ lastOp'.ok = FALSE
           /\ UNCHANGED <<employees, points_history>>)]_vars

\* the same undo, looking only at what it does to the tables
C21_UndoOfMissingEventChangesNothing ==
    [][(/\ lastOp'.kind = "undo_point"
        /\ undo_history # << >>
        /\ undo_history[Len(undo_history)].point_id \notin EventIds(points_history))
       => UNCHANGED <<employees, points_history>>]_vars

\* the total and the perfect-attendance date of an employee, stored in the row
\* by ATP_Beta7, computed from the ledger resp. named perfect_bonus in the
\* legacy administration program
TotalOf(row, hist, emp_id) ==
    IF "point_total" \in DOMAIN row THEN row.point_total ELSE current_total(hist, emp_id)

PerfectOf(row) ==
    IF "perfect_attendance" \in DOMAIN row THEN row.perfect_attendance ELSE row.perfect_bonus

\* an accepted creation of an employee
Created == lastOp'.kind \in {"add_employee", "legacy_add_employee"} /\ lastOp'.ok

RECURSIVE ReferenceRun(_, _, _, _, _)
ReferenceRun(total, due, removed, perfect_date, today_date) ==
    IF due <= today_date
    THEN ReferenceRun(IF total > 0 THEN max0(total - 2) ELSE total,
                      step_next_due(due, perfect_date),
                      IF total > 0 THEN removed + 1 ELSE removed,
                      perfect_date, today_date)
    ELSE [total |-> total, next_roll |-> due, removed |-> removed]

PerfectAnchor(row) ==
    IF row.last_point_date # NoDate
    THEN three_months_then_first(row.last_point_date)
    ELSE DATE_MIN

\* C23: for every employee that is due, the total, the due date and the number
\* of deductions the run computes are those of the reference loop
C23_EngineMatchesReference ==
    \A e \in DOMAIN employees :
        (employees[e].rolloff_date # NoDate /\ employees[e].rolloff_date <= today)
        => expire_employee(employees[e], today)
             = ReferenceRun(employees[e].point_total, employees[e].rolloff_date, 0,
                            PerfectAnchor(employees[e]), today)

\* a step that completes an auto-expiration run
RunCompleted ==
    /\ lastOp'.kind = "auto_expire"
    /\ handler' = Idle
    /\ (handler = Idle \/ handler.op = "auto_expire")

\* C24: a completed run gives an employee with n > 0 deductions exactly one new
\* ledger event (dated today, magnitude -n, flag AUTO) and exactly one audit row
\* carrying the stored total; it gives every other employee no ledger event and
\* no audit row and changes at most that employee's rolloff_date
C24_OneEventOneRowPerDeducted ==
    [][RunCompleted =>
         \A e \in DOMAIN employees :
            LET n == IF e \in expired_recs(employees, today)
                     THEN expire_employee(employees[e], today).removed ELSE 0
                new == rows_of(points_history', e) \ rows_of(points_history, e)
                audit == { a \in log_rows' : a.emp_id = e }
            IN  /\ rows_of(points_history, e) \subseteq rows_of(points_history', e)
                /\ IF n > 0
                   THEN /\ Cardinality(new) = 1
                        /\ \A r \in new : /\ r.point_date = today
                                          /\ r.points = -2 * n
                                          /\ r.flag_code = "AUTO"
                        /\ Cardinality(audit) = 1
                        /\ \A a \in audit : /\ a.total = employees'[e].point_total
                                            /\ a.removed = n
                   ELSE /\ new = {}
                        /\ audit = {}
                        /\ employees'[e] = [employees[e] EXCEPT
                                              !.rolloff_date = employees'[e].rolloff_date]]_vars

\* the last run has deducted from one employee and written its event and its
\* audit row, while another employee, at zero since an earlier run of the same
\* day and with its due date pushed past today, has no audit row
C24_Witness ==
    /\ Handler("auto_expire")
    /\ \E e, f \in DOMAIN employees :
         /\ log_rows = { [emp_id |-> e, run_date |-> today, removed |-> 1, total |-> 0] }
         /\ \E r \in rows_of(points_history, e) :
              /\ r.flag_code = "AUTO" /\ r.point_date = today
              /\ r.id = next_id - 1
         /\ f # e
         /\ employees[f].point_total = 0
         /\ employees[f].rolloff_date > today
         /\ \E r \in rows_of(points_history, f) :
              r.flag_code = "AUTO" /\ r.point_date = today

\* C25: a completed run leaves every employee that has no rolloff_date, or one
\* later than today, with the same row and the same ledger events, and leaves
\* the perfect_attendance and point_warning_date of every employee as they were
C25_RunTouchesOnlyDue ==
    [][RunCompleted =>
         /\ DOMAIN employees' = DOMAIN employees
         /\ \A e \in DOMAIN employees :
              /\ e \notin expired_recs(employees, today)
                   => /\ employees'[e] = employees[e]
                      /\ rows_of(points_history', e) = rows_of(points_history, e)
              /\ employees'[e].perfect_attendance = employees[e].perfect_attendance
              /\ employees'[e].point_warning_date = employees[e].point_warning_date]_vars

\* the last run has deducted from one employee, whose perfect-attendance date
\* is still set, and has left alone an employee with points whose due date is
\* later than today
C25_Witness ==
    /\ Handler("auto_expire")
    /\ \E e, f \in DOMAIN employees :
         /\ \E a \in log_rows : a.emp_id = e /\ a.run_date = today
         /\ employees[e].perfect_attendance # NoDate
         /\ f # e
         /\ employees[f].point_total > 0
         /\ employees[f].rolloff_date > today
         /\ \A r \in rows_of(points_history, f) : r.flag_code # "AUTO"

\* the due dates reached from a due date by plain 2-month-then-snap steps
RECURSIVE PlainOrbit(_, _)
PlainOrbit(due, steps) ==
    IF steps = 0 THEN {due}
    ELSE {due} \cup PlainOrbit(two_months_then_first(due), steps - 1)

\* C26: a run leaves the anchor of a due employee as it was; when the stored
\* due date was before the perfect-attendance date the run takes the skip once,
\* and the new due date is reached from the skip's result by plain steps only,
\* so it is at or after the perfect-attendance date; when the stored due date
\* was at or after the perfect-attendance date the new due date is reached
\* from it by plain steps only
C26_SkipTakenOnce ==
    [][RunCompleted =>
         \A e \in expired_recs(employees, today) :
            LET perfect_date == PerfectAnchor(employees[e])
                due == employees[e].rolloff_date
                new_due == employees'[e].rolloff_date
            IN  /\ PerfectAnchor(employees'[e]) = perfect_date
                /\ new_due >= perfect_date
                /\ IF due < perfect_date
                   THEN new_due \in PlainOrbit(two_months_then_first(perfect_date), MaxSteps)
                   ELSE new_due \in PlainOrbit(two_months_then_first(due), MaxSteps)]_vars

\* a second run on an employee whose first run took the skip: the due date
\* 2025-06-01 of the first run has been advanced by two plain steps
C26_Witness ==
    /\ Handler("auto_expire") /\ lastOp.nth = 2
    /\ \E e \in DOMAIN employees :
         /\ employees[e].last_point_date = mkdate(2024, 11, 30)
         /\ employees[e].rolloff_date = mkdate(2025, 12, 1)

\* C27: a successful add inserts one event under an identifier larger than
\* every identifier in the ledger and records that identifier and its employee
\* as the newest entry of the undo log; an undo removes the event the newest
\* entry names, when it is still in the ledger, and no other event, and leaves
\* the row of every other employee as it was
C27_UndoRemovesExactlyTheAddedEvent ==
    /\ [][(lastOp'.kind = "add_point" /\ lastOp'.ok)
          => LET top == undo_history'[Len(undo_history')]
             IN  /\ \A r \in points_history : r.id < top.point_id
                 /\ top.emp_id = lastOp'.emp
                 /\ \E r \in points_history' :
                      /\ r.id = top.point_id /\ r.employee_id = top.emp_id
                      /\ r.points = top.points
                      /\ points_history' = points_history \cup {r}]_vars
    /\ [][(lastOp'.kind = "undo_point" /\ undo_history # << >>)
          => LET top == undo_history[Len(undo_history)]
             IN  /\ points_history' = { r \in points_history : r.id # top.point_id }
                 /\ \A r \in points_history \ points_history' :
                      r.employee_id = top.emp_id /\ r.points = top.points /\ r.flag_code = ""
                 /\ DOMAIN employees' = DOMAIN employees
                 /\ \A e \in DOMAIN employees \ {top.emp_id} :
                      employees'[e] = employees[e]]_vars

\* an add for one employee, a roll-off run that wrote its event for that
\* employee, an add for another employee, and the undo of that last add: the
\* first employee keeps the added event and the run's event
C27_Witness ==
    /\ Handler("undo_point")
    /\ \E e \in DOMAIN employees :
         /\ e # lastOp.emp
         /\ lastOp.emp \in DOMAIN employees
         /\ rows_of(points_history, lastOp.emp) = {}
         /\ \E r, q \in rows_of(points_history, e) :
              r.flag_code = "" /\ q.flag_code = "AUTO" /\ q.id > r.id
         /\ next_id > 1 + Cardinality(points_history)
         /\ Len(undo_history) = 1

\* C28: the stored point_total of an employee is never negative
C28_TotalNeverNegative ==
    \A e \in DOMAIN employees : employees[e].point_total >= 0

\* the '2M' events of the ledger
RolloffEvents2M == { r \in points_history : r.flag_code = "2M" }

C30_StepStrictlyLater ==
    calc.fn = "step_next_due" =>
        /\ calc.result > calc.a
        /\ calc.result >= RefAddMonths(calc.a, 2)

\* a step with the DATE_MIN sentinel as the perfect-attendance date
C30_Witness ==
    calc = Call("step_next_due", mkdate(2025, 12, 1), DATE_MIN, mkdate(2026, 3, 1))

====
